---- MODULE Spec2Model ----
(***************************************************************************)
(* WifePen: the connect cycle of main.py (CLI._connect) and the two tasks  *)
(* of airapi.py it runs as threads (API.get_handshake, API.deauth_clients) *)
(* followed by passphrase recovery (API.parse_password).                   *)
(*                                                                         *)
(* Time is discrete, counted in seconds.  A thread that can take a step    *)
(* takes it before time advances; time passes only while every thread is  *)
(* asleep, blocked on a read, or waiting for the user.  The API-level      *)
(* specifications advance time second by second (Tick); the connect cycle  *)
(* advances it from one deadline to the next (Leap), so what the tools and *)
(* the user do is sampled at those instants.                               *)
(*                                                                         *)
(* parse_password takes no time in the model.  At most one interrupt is    *)
(* delivered per cycle.                                                    *)
(***************************************************************************)
EXTENDS Naturals, Sequences, FiniteSets, TLC

VARIABLES
    mainPc,      \* position of the main thread (CLI)
    mainTimer,   \* seconds left of the main thread's current sleep / join
    cycle,       \* number of the current connect cycle (0: none yet)
    clients,     \* result of get_connected_clients in the current cycle
    cap,         \* cap[c]: the get_handshake thread of cycle c
    de,          \* de[c]: the deauth_clients thread of cycle c
    capAge,      \* capAge[c]: seconds since cycle c's capture thread was started
    capsDir,     \* capture files present in caps/ (0: one left by an earlier run)
    wordlist,    \* whether parse_password found result/<ssid>.txt
    connectRet,  \* connectRet[c]: how _connect ended in cycle c
    recovery,    \* recovery[c]: whether parse_password was called in cycle c
    cancelled,   \* cancelled[c]: which tasks ran when the interrupt was caught
    last_scan,   \* API.last_scan: the cached list of access points
    scan,        \* the most recent call of scan_network: its CSV and its result
    lookup,      \* the most recent call of get_info_by_bssid: argument and result
    crack,       \* the most recent passphrase recovery: mode, tool output, result
    cli          \* the menus: current_device, selected_network, where the user is

vars == <<mainPc, mainTimer, cycle, clients, cap, de, capAge, capsDir,
          wordlist, connectRet, recovery, cancelled,
          last_scan, scan, lookup, crack, cli>>

\* the state of the connect cycle and its threads
connectVars == <<mainPc, mainTimer, cycle, clients, cap, de, capAge, capsDir,
                 wordlist, connectRet, recovery, cancelled>>

\* the state of the menus and of the API calls made outside a connect cycle
apiVars == <<last_scan, scan, lookup, crack, cli>>

(***************************************************************************)
(* Program constants.                                                      *)
(***************************************************************************)
Grace == 5               \* main.py: time.sleep(5) before the deauth thread
PollInterval == 1        \* main.py: time.sleep(1) in the wait loop
JoinTimeout == 1         \* main.py: join(timeout=1)
MinClients == 2          \* main.py: len(clients) < 2
EnumTimeout == 15        \* airapi.py: get_connected_clients(timeout=15)
Timeout == 120           \* airapi.py: get_handshake(timeout=120)
IdlePoll == 1            \* airapi.py: time.sleep(1) when readline gave nothing
Interval == 60           \* airapi.py: deauth_clients(interval=60)
MinColumns == 14         \* airapi.py: an access point row has 14+ columns

(***************************************************************************)
(* Bounds of the model.                                                    *)
(***************************************************************************)
MaxCycles == 2           \* connect cycles in one run of the program
MaxClients == 2          \* longest client list an enumeration returns
MaxLen == 3              \* longest client list given to deauth_clients directly
MaxWrite == 0            \* a capture tool that creates its file does so by then
MaxRows == 3             \* longest scan CSV whose parsing is examined
MaxAPs == 2              \* most access point rows of a scan that is cached
MaxLine == 6             \* longest line of aircrack-ng output, in tokens
MaxFiles == 3            \* most capture files in caps/ when recovery is called
MaxMtime == 2            \* modification times of capture files: 1..MaxMtime

Cycles == 1..MaxCycles

Macs == {"A", "B"}

Min(a, b) == IF a < b THEN a ELSE b

SeqsUpTo(S, n) == UNION {[1..k -> S] : k \in 0..n}

(***************************************************************************)
(* Strings are sequences of characters, so that str.strip() and            *)
(* str.lower() do what they do.                                            *)
(***************************************************************************)
\* str.lower() of one character
LowerChar(ch) ==
    CASE ch = "A" -> "a" [] ch = "B" -> "b" [] ch = "C" -> "c"
      [] ch = "D" -> "d" [] ch = "I" -> "i" [] ch = "M" -> "m"
      [] ch = "S" -> "s" [] OTHER -> ch

\* str.lower()
Lower(str) == [k \in 1..Len(str) |-> LowerChar(str[k])]

\* str.strip(): without the white space at both ends
Strip(str) ==
    LET ink == {k \in 1..Len(str) : str[k] # " "}
    IN  IF ink = {} THEN <<>>
        ELSE SubSeq(str, CHOOSE k \in ink : \A j \in ink : k <= j,
                         CHOOSE k \in ink : \A j \in ink : j <= k)

(***************************************************************************)
(* API.scan_network and API.get_info_by_bssid                              *)
(* A CSV row is its first cell and its number of columns; csv.reader gives *)
(* [] for an empty line.  An access point is known by its bssid.           *)
(***************************************************************************)
HeaderCell == <<"B", "S", "S", "I", "D">>
StationCell == <<"s", "t", "a", "t", "i", "o", "n", " ", "m", "a", "c">>

\* first cells airodump-ng writes, and variants in case and padding
FirstCells ==
    { HeaderCell,
      <<"b", "s", "s", "i", "d">>,
      <<"S", "t", "a", "t", "i", "o", "n", " ", "M", "A", "C">>,
      <<" ">> \o StationCell,
      <<"A", "A">>,
      <<"a", "a", " ">>,
      <<"A", "b">> }

EmptyRow == [first |-> <<>>, ncols |-> 0]

Rows ==
    {EmptyRow} \cup
    [first : FirstCells, ncols : {MinColumns - 1, MinColumns}]

\* the CSV files whose parsing is examined
CsvInputs == SeqsUpTo(Rows, MaxRows)

\* CSV files of scans that found access points only
APRows == [first : {<<"A", "A">>, <<"a", "a", " ">>, <<"A", "b">>},
           ncols : {MinColumns}]

ScanInputs == SeqsUpTo(APRows, MaxAPs)

\* as read_rows, but going on after the row that begins the client section
RECURSIVE read_rows_past_marker(_, _, _)
read_rows_past_marker(rdr, k, ap_list) ==
    IF k > Len(rdr) THEN ap_list
    ELSE LET row == rdr[k]
         IN  IF row.ncols = 0 THEN read_rows_past_marker(rdr, k + 1, ap_list)
             ELSE IF Strip(row.first) = HeaderCell
                     THEN read_rows_past_marker(rdr, k + 1, ap_list)
             ELSE IF Lower(Strip(row.first)) = StationCell
                     THEN read_rows_past_marker(rdr, k + 1, ap_list)
             ELSE IF row.ncols < MinColumns
                     THEN read_rows_past_marker(rdr, k + 1, ap_list)
             ELSE read_rows_past_marker(rdr, k + 1,
                            Append(ap_list, [bssid |-> Strip(row.first)]))

\* the loop over the rows of the CSV, from row k on
RECURSIVE read_rows(_, _, _)
read_rows(rdr, k, ap_list) ==
    IF k > Len(rdr) THEN ap_list
    ELSE LET row == rdr[k]
         IN  IF row.ncols = 0 THEN read_rows(rdr, k + 1, ap_list)
             ELSE IF Strip(row.first) = HeaderCell
                     THEN read_rows(rdr, k + 1, ap_list)
             ELSE IF Lower(Strip(row.first)) = StationCell THEN ap_list
             ELSE IF row.ncols < MinColumns
                     THEN read_rows(rdr, k + 1, ap_list)
             ELSE read_rows(rdr, k + 1,
                            Append(ap_list, [bssid |-> Strip(row.first)]))

ScanNone == [csv |-> <<>>, ret |-> "none", returned |-> <<>>, prev |-> <<>>]
LookupNone == [bssid |-> <<>>, ret |-> "none", net |-> [bssid |-> <<>>]]

\* as scan_network, but the new list is added to the cached one
scan_network_merging(rdr) ==
    LET ap_list == read_rows(rdr, 1, <<>>)
    IN  /\ last_scan' = last_scan \o ap_list
        /\ scan' = [csv |-> rdr, ret |-> "list", returned |-> ap_list,
                     prev |-> last_scan]
        /\ lookup' = LookupNone
        /\ UNCHANGED <<connectVars, crack>>

\* scan_network reads the CSV airodump-ng wrote and caches the result; the
\* record keeps the CSV and the list of the last scan that returned one, and
\* what the cache held before it
scan_network(rdr) ==
    LET ap_list == read_rows(rdr, 1, <<>>)
    IN  /\ last_scan' = ap_list
        /\ scan' = [csv |-> rdr, ret |-> "list", returned |-> ap_list,
                     prev |-> last_scan]
        /\ lookup' = LookupNone
        /\ UNCHANGED <<connectVars, crack>>

\* no airodump-ng, or no CSV written: RuntimeError
scan_fails ==
    /\ scan' = [scan EXCEPT !.ret = "RuntimeError"]
    /\ lookup' = LookupNone
    /\ UNCHANGED <<connectVars, last_scan, crack>>

\* as find_net, but comparing the strings as they are
RECURSIVE find_net_exact(_, _)
find_net_exact(bssid, k) ==
    IF k > Len(last_scan) THEN 0
    ELSE IF last_scan[k].bssid = bssid THEN k
    ELSE find_net_exact(bssid, k + 1)

\* the first net of last_scan, from index k on, whose bssid is the one asked
RECURSIVE find_net(_, _)
find_net(bssid, k) ==
    IF k > Len(last_scan) THEN 0
    ELSE IF Lower(last_scan[k].bssid) = Lower(bssid) THEN k
    ELSE find_net(bssid, k + 1)

get_info_by_bssid(bssid) ==
    LET k == find_net(bssid, 1)
    IN  /\ lookup' = IF k = 0
                        THEN [bssid |-> bssid, ret |-> "ValueError",
                              net |-> LookupNone.net]
                        ELSE [bssid |-> bssid, ret |-> "net",
                              net |-> last_scan[k]]
        /\ UNCHANGED <<connectVars, last_scan, scan, crack>>

\* the BSSIDs asked for
Queries == {<<"A", "A">>, <<"a", "a">>, <<"A", "B">>, <<"a", "a", " ">>}

(***************************************************************************)
(* Passphrase recovery: what parse_password and brute_force_password make  *)
(* of the output of aircrack-ng.  The output is one line of tokens (the    *)
(* marker "KEY FOUND!", brackets, blanks, other text) followed by a note,  *)
(* one of the messages the code looks for, or none.                        *)
(***************************************************************************)
KeyMarker == "KEY FOUND!"
LineTokens == {KeyMarker, "[", "]", " ", "x"}
Lines == SeqsUpTo(LineTokens, MaxLine)
Notes == {"", "Passphrase not in dictionary", "No networks found",
          "ap_cur != NULL"}
Modes == {"dictionary", "brute_force"}

\* `marker in line`
Contains(line, tok) == \E k \in 1..Len(line) : line[k] = tok

\* index of the first tok in line from index k on, Len(line) + 1 if none
RECURSIVE IndexFrom(_, _, _)
IndexFrom(line, toks, k) ==
    IF k > Len(line) \/ line[k] \in toks THEN k
    ELSE IndexFrom(line, toks, k + 1)

\* line.split("[")[1].split("]")[0]; "IndexError" when the line has no "["
split_key(line) ==
    LET open == IndexFrom(line, {"["}, 1)
    IN  IF open > Len(line) THEN "IndexError"
        ELSE LET part == SubSeq(line, open + 1,
                                IndexFrom(line, {"["}, open + 1) - 1)
             IN  SubSeq(part, 1, IndexFrom(part, {"]"}, 1) - 1)

\* no capture file
NoFile == [name |-> 0, mtime |-> 0]

\* files: what glob("handshake_*.cap") gives, in its order, each file with
\* its modification time; wl: whether the word list is there (dictionary) or
\* can be unpacked (brute force); used: the capture file given to aircrack-ng
CrackNone == [mode |-> "none", line |-> <<>>, note |-> "", how |-> "none",
              ret |-> "none", key |-> <<>>,
              files |-> <<>>, wl |-> TRUE, used |-> NoFile]

\* the capture files are numbered
CapNames == 1..MaxFiles

\* the listings of caps/: up to MaxFiles files of different names
CapListings ==
    {fs \in SeqsUpTo([name : CapNames, mtime : 1..MaxMtime], MaxFiles) :
        \A j, k \in 1..Len(fs) : j # k => fs[j].name # fs[k].name}

\* f put into the list srt, which is in descending order of mtime, after the
\* files that are as new or newer (sorted is stable)
RECURSIVE insert_desc(_, _)
insert_desc(f, srt) ==
    IF srt = <<>> THEN <<f>>
    ELSE IF Head(srt).mtime >= f.mtime
            THEN <<Head(srt)>> \o insert_desc(f, Tail(srt))
    ELSE <<f>> \o srt

\* as sorted_by_mtime, but the files stay in the order of the listing
RECURSIVE sorted_not(_, _)
sorted_not(fs, srt) ==
    IF fs = <<>> THEN srt
    ELSE sorted_not(Tail(fs), srt \o <<Head(fs)>>)

\* sorted(cap_files, key=os.path.getmtime, reverse=True), onto srt
RECURSIVE sorted_by_mtime(_, _)
sorted_by_mtime(fs, srt) ==
    IF fs = <<>> THEN srt
    ELSE sorted_by_mtime(Tail(fs), insert_desc(Head(fs), srt))

\* before aircrack-ng is run: the word list, then the capture files
recover_select ==
    /\ crack.mode \in Modes /\ crack.how = "none"
    /\ crack' =
          IF ~crack.wl
             THEN [crack EXCEPT !.how = "error",
                                !.ret = IF crack.mode = "dictionary"
                                           THEN "FileNotFoundError"
                                           ELSE "RuntimeError"]
          ELSE IF crack.files = <<>>
             THEN [crack EXCEPT !.how = "error", !.ret = "FileNotFoundError"]
          ELSE [crack EXCEPT !.how = "selected",
                             !.used = sorted_by_mtime(crack.files, <<>>)[1]]
    /\ UNCHANGED <<connectVars, last_scan, scan, lookup, cli>>

\* the analysis of the output, after subprocess.run returned
analyse(mode, line, note) ==
    IF Contains(line, KeyMarker)
       THEN IF split_key(line) = "IndexError"
               THEN [ret |-> "RuntimeError", key |-> <<>>]
               ELSE [ret |-> "key", key |-> split_key(line)]
    ELSE IF mode = "brute_force" THEN [ret |-> "empty", key |-> <<>>]
    ELSE IF note = "Passphrase not in dictionary"
            THEN [ret |-> "empty", key |-> <<>>]
    ELSE IF note \in {"No networks found", "ap_cur != NULL"}
            THEN [ret |-> "RuntimeError", key |-> <<>>]
    ELSE [ret |-> "empty", key |-> <<>>]

\* aircrack-ng ends within the time limit and its output is analysed
recover_run ==
    /\ crack.mode \in Modes /\ crack.how = "selected"
    /\ crack' = [crack EXCEPT
                    !.how = "ran",
                    !.ret = analyse(crack.mode, crack.line, crack.note).ret,
                    !.key = analyse(crack.mode, crack.line, crack.note).key]
    /\ UNCHANGED <<connectVars, last_scan, scan, lookup, cli>>

\* subprocess.TimeoutExpired: return ""
recover_timeout ==
    /\ crack.mode \in Modes /\ crack.how = "selected"
    /\ crack' = [crack EXCEPT !.how = "timeout", !.ret = "empty"]
    /\ UNCHANGED <<connectVars, last_scan, scan, lookup, cli>>

\* subprocess.run raises anything else (no aircrack-ng): RuntimeError
recover_error ==
    /\ crack.mode \in Modes /\ crack.how = "selected"
    /\ crack' = [crack EXCEPT !.how = "error", !.ret = "RuntimeError"]
    /\ UNCHANGED <<connectVars, last_scan, scan, lookup, cli>>

(***************************************************************************)
(* The menus of the CLI (run, _select_device, _scan_network,               *)
(* _network_actions, _show_selected_info).                                 *)
(*   device    whether current_device is set                               *)
(*   selected  selected_network, NoNet for None                            *)
(*   at        the menu shown, or the action that runs                     *)
(***************************************************************************)
NoNet == [bssid |-> <<"-">>]

CliStart == [device |-> FALSE, selected |-> NoNet, at |-> "main"]

\* "Choice Wireless Device": an interface is chosen, or the menu is left
select_device ==
    /\ cli.at = "main"
    /\ \E chosen \in BOOLEAN :
          cli' = [cli EXCEPT !.device = @ \/ chosen]
    /\ UNCHANGED <<connectVars, last_scan, scan, lookup, crack>>

\* "Scan Network" with an interface: the scan returns nets, one is picked
\* (idx 0: none is, or there is none to pick)
cli_scan ==
    /\ cli.at = "main" /\ cli.device
    /\ \E rdr \in ScanInputs :
          /\ scan_network(rdr)
          /\ \E idx \in 0..Len(last_scan') :
                cli' = IF idx = 0 THEN cli
                       ELSE [cli EXCEPT !.selected = last_scan'[idx]]

\* "Scan Network" with an interface: scan_network raises RuntimeError
cli_scan_fails ==
    /\ cli.at = "main" /\ cli.device
    /\ scan_fails
    /\ UNCHANGED cli

\* the entry of the selected network in the main menu
network_actions ==
    /\ cli.at = "main" /\ cli.selected # NoNet
    /\ cli' = [cli EXCEPT !.at = "network"]
    /\ UNCHANGED <<connectVars, last_scan, scan, lookup, crack>>

\* "Back" in the network menu
network_back ==
    /\ cli.at = "network"
    /\ cli' = [cli EXCEPT !.at = "main"]
    /\ UNCHANGED <<connectVars, last_scan, scan, lookup, crack>>

\* as show_selected_info, but the menu of actions is shown in any case
show_selected_info_always ==
    /\ cli.at = "network"
    /\ get_info_by_bssid(cli.selected.bssid)
    /\ cli' = [cli EXCEPT !.at = "info"]

\* "Show info": the lookup, then the menu of actions unless it raised
show_selected_info ==
    /\ cli.at = "network"
    /\ get_info_by_bssid(cli.selected.bssid)
    /\ cli' = [cli EXCEPT !.at = IF lookup'.ret = "net" THEN "info"
                                 ELSE "network"]

\* the menu of actions: self._connect(), self._brute_force(), or neither
choose_action ==
    /\ cli.at = "info"
    /\ \E chose \in {"connect", "brute_force", "network"} :
          cli' = [cli EXCEPT !.at = chose]
    /\ UNCHANGED <<connectVars, last_scan, scan, lookup, crack>>

\* _connect or _brute_force returns to the network menu
action_returns ==
    /\ cli.at \in {"connect", "brute_force"}
    /\ cli' = [cli EXCEPT !.at = "network"]
    /\ UNCHANGED <<connectVars, last_scan, scan, lookup, crack>>

\* nothing has been done outside the connect cycle
ApiUnused ==
    /\ last_scan = <<>>
    /\ scan = ScanNone
    /\ lookup = LookupNone
    /\ crack = CrackNone
    /\ cli = CliStart

(***************************************************************************)
(* API.deauth_clients                                                      *)
(*   i        index of the client of the current iteration                 *)
(*   success  the flag the function returns                               *)
(*   inj      whether an injector process runs                            *)
(* and, kept for the record of what the call did:                         *)
(*   attempted  the clients subprocess.run was called for, in order       *)
(*   failures   how many of these calls did not succeed                   *)
(*   pauses     the iterations that ended with time.sleep(interval)       *)
(*   missing    whether a call found no aireplay-ng                       *)
(***************************************************************************)
DeIdle == [pc |-> "idle", clients |-> <<>>, i |-> 0, success |-> TRUE,
           timer |-> 0, ret |-> "none", attempted |-> <<>>, failures |-> 0,
           pauses |-> {}, missing |-> FALSE]

\* the call: success = True, then the first iteration of the for loop
\* (an empty list returns success at once)
DeStart(cl) ==
    IF cl = <<>>
       THEN [DeIdle EXCEPT !.pc = "done", !.ret = "True"]
       ELSE [DeIdle EXCEPT !.pc = "attempt", !.clients = cl, !.i = 1]

\* the end of one iteration: the next client, or `return success`
DeAdvance(d) ==
    IF d.i < Len(d.clients)
       THEN [d EXCEPT !.pc = "attempt", !.i = d.i + 1, !.timer = 0]
       ELSE [d EXCEPT !.pc = "done", !.timer = 0,
                      !.ret = IF d.success THEN "True" ELSE "False"]

\* `if client_bssid != clients[-1]`: the test that decides the pause
PauseAfter(d) == d.clients[d.i] # d.clients[Len(d.clients)]

\* as DeAfterAttempt, but a timeout leaves the success flag as it was
DeAfterAttemptTimeoutIgnored(d, outcome) ==
    LET d1 == [d EXCEPT !.success = d.success /\ (outcome \in {"ok", "timeout"}),
                        !.failures = IF outcome = "ok" THEN @ ELSE @ + 1]
    IN  IF PauseAfter(d1)
           THEN [d1 EXCEPT !.pc = "pause", !.timer = Interval,
                           !.pauses = d.pauses \cup {d.i}]
           ELSE DeAdvance(d1)

\* after the try/except of one attempt that was not fatal
DeAfterAttempt(d, outcome) ==
    LET d1 == [d EXCEPT !.success = d.success /\ (outcome = "ok"),
                        !.failures = IF outcome = "ok" THEN @ ELSE @ + 1]
    IN  IF PauseAfter(d1)
           THEN [d1 EXCEPT !.pc = "pause", !.timer = Interval,
                           !.pauses = d.pauses \cup {d.i}]
           ELSE DeAdvance(d1)

\* subprocess.run starts the injector
deauth_spawn(c) ==
    /\ de[c].pc = "attempt"
    /\ de' = [de EXCEPT ![c] = [@ EXCEPT !.pc = "run", !.timer = Interval,
                  !.attempted = Append(@, de[c].clients[de[c].i])]]
    /\ UNCHANGED <<mainPc, mainTimer, cycle, clients, cap, capAge, capsDir,
                   wordlist, connectRet, recovery, cancelled,
                   apiVars>>

\* as deauth_missing, but the loop goes on as after any other exception
deauth_missing_continues(c) ==
    /\ de[c].pc = "attempt"
    /\ de' = [de EXCEPT ![c] = DeAfterAttempt(
                 [@ EXCEPT !.attempted = Append(@, de[c].clients[de[c].i]),
                           !.missing = TRUE],
                 "error")]
    /\ UNCHANGED <<mainPc, mainTimer, cycle, clients, cap, capAge, capsDir,
                   wordlist, connectRet, recovery, cancelled,
                   apiVars>>

\* subprocess.run finds no aireplay-ng: FileNotFoundError, return False
deauth_missing(c) ==
    /\ de[c].pc = "attempt"
    /\ de' = [de EXCEPT ![c] =
                 [@ EXCEPT !.pc = "done", !.ret = "False",
                           !.attempted = Append(@, de[c].clients[de[c].i]),
                           !.failures = @ + 1, !.missing = TRUE]]
    /\ UNCHANGED <<mainPc, mainTimer, cycle, clients, cap, capAge, capsDir,
                   wordlist, connectRet, recovery, cancelled,
                   apiVars>>

\* subprocess.run raises something else (except Exception): success = False
deauth_error(c) ==
    /\ de[c].pc = "attempt"
    /\ de' = [de EXCEPT ![c] = DeAfterAttempt(
                 [@ EXCEPT !.attempted = Append(@, de[c].clients[de[c].i])],
                 "error")]
    /\ UNCHANGED <<mainPc, mainTimer, cycle, clients, cap, capAge, capsDir,
                   wordlist, connectRet, recovery, cancelled,
                   apiVars>>

\* the injector exits, with status 0 or not (CalledProcessError)
deauth_exit(c) ==
    /\ de[c].pc = "run"
    /\ \E outcome \in {"ok", "failed"} :
          de' = [de EXCEPT ![c] = DeAfterAttempt(@, outcome)]
    /\ UNCHANGED <<mainPc, mainTimer, cycle, clients, cap, capAge, capsDir,
                   wordlist, connectRet, recovery, cancelled,
                   apiVars>>

\* the injector is still running after `interval` seconds: TimeoutExpired
deauth_timeout(c) ==
    /\ de[c].pc = "run"
    /\ de[c].timer = 0
    /\ de' = [de EXCEPT ![c] = DeAfterAttempt(@, "timeout")]
    /\ UNCHANGED <<mainPc, mainTimer, cycle, clients, cap, capAge, capsDir,
                   wordlist, connectRet, recovery, cancelled,
                   apiVars>>

\* time.sleep(interval) is over
deauth_resume(c) ==
    /\ de[c].pc = "pause"
    /\ de[c].timer = 0
    /\ de' = [de EXCEPT ![c] = DeAdvance(@)]
    /\ UNCHANGED <<mainPc, mainTimer, cycle, clients, cap, capAge, capsDir,
                   wordlist, connectRet, recovery, cancelled,
                   apiVars>>

DeAlive(c) == de[c].pc \notin {"idle", "done"}

\* the thread waits for time to pass (or is not running)
DeWaits(c) ==
    \/ ~DeAlive(c)
    \/ de[c].pc \in {"run", "pause"} /\ de[c].timer > 0

\* the times at which the thread's sleep or its injector's time limit ends
DeDeadlines(c) ==
    IF de[c].pc \in {"run", "pause"} /\ de[c].timer > 0
       THEN {de[c].timer} ELSE {}

\* n seconds pass
DePass(d, n) ==
    IF d.pc \in {"run", "pause"} /\ d.timer > 0
       THEN [d EXCEPT !.timer = d.timer - n]
       ELSE d

(***************************************************************************)
(* API.get_handshake                                                       *)
(*   proc: "none"      no capture process was created                      *)
(*         "running"   airodump-ng runs and holds its stderr open          *)
(*         "signalled" terminate() was sent, the process was not waited for*)
(*         "exited"    the process ended by itself (readline sees EOF)     *)
(*         "reaped"    terminate() and wait() are done                     *)
(***************************************************************************)
ElapsedCap == Timeout + IdlePoll + 1    \* elapsed time is counted up to here

\* cause: what made the function return (kept for the record)
CapIdle == [pc |-> "idle", timer |-> 0, elapsed |-> 0, proc |-> "none",
            ret |-> "none", cause |-> "none"]

CapStart == [CapIdle EXCEPT !.pc = "start"]

\* the capture file <prefix>-01.cap of cycle c exists
CapFileExists(c) == c \in capsDir

\* as CapFinish, but a timeout gives "" whether the file exists or not
CapFinishTimeoutFails(c, k) ==
    [k EXCEPT !.pc = "done", !.proc = "reaped", !.timer = 0, !.elapsed = 0,
              !.ret = IF CapFileExists(c) /\ k.cause # "timeout"
                         THEN "path" ELSE "empty"]

\* proc.terminate(); proc.wait(); return cap_file if it exists, else ""
CapFinish(c, k) ==
    [k EXCEPT !.pc = "done", !.proc = "reaped", !.timer = 0, !.elapsed = 0,
              !.ret = IF CapFileExists(c) THEN "path" ELSE "empty"]

\* `(time.time() - start_time) > timeout`
TimedOut(k) == k.elapsed > Timeout

\* subprocess.Popen starts airodump-ng; start_time = time.time()
handshake_spawn(c) ==
    /\ cap[c].pc = "start"
    /\ cap' = [cap EXCEPT ![c] = [@ EXCEPT !.pc = "loop", !.proc = "running"]]
    /\ UNCHANGED <<mainPc, mainTimer, cycle, clients, de, capAge, capsDir,
                   wordlist, connectRet, recovery, cancelled,
                   apiVars>>

\* subprocess.Popen raises: the handler reads `proc`, which was never bound,
\* and the UnboundLocalError leaves get_handshake
handshake_spawn_fails(c) ==
    /\ cap[c].pc = "start"
    /\ cap' = [cap EXCEPT ![c] = [@ EXCEPT !.pc = "crashed"]]
    /\ UNCHANGED <<mainPc, mainTimer, cycle, clients, de, capAge, capsDir,
                   wordlist, connectRet, recovery, cancelled,
                   apiVars>>

\* top of `while True`: the timeout test
handshake_check(c) ==
    /\ cap[c].pc = "loop"
    /\ cap' = [cap EXCEPT ![c] = IF TimedOut(@)
                                    THEN CapFinish(c, [@ EXCEPT !.cause = "timeout"])
                                 ELSE [@ EXCEPT !.pc = "readline"]]
    /\ UNCHANGED <<mainPc, mainTimer, cycle, clients, de, capAge, capsDir,
                   wordlist, connectRet, recovery, cancelled,
                   apiVars>>

\* proc.stderr.readline() returns a line the tool wrote
handshake_line(c) ==
    /\ cap[c].pc = "readline"
    /\ cap[c].proc = "running"
    /\ \E marker \in BOOLEAN :
          cap' = [cap EXCEPT ![c] = IF marker
                                       THEN CapFinish(c, [@ EXCEPT !.cause = "marker"])
                                    ELSE [@ EXCEPT !.pc = "loop"]]
    /\ UNCHANGED <<mainPc, mainTimer, cycle, clients, de, capAge, capsDir,
                   wordlist, connectRet, recovery, cancelled,
                   apiVars>>

\* proc.stderr.readline() returns '' (end of file): time.sleep(1); continue
handshake_eof(c) ==
    /\ cap[c].pc = "readline"
    /\ cap[c].proc = "exited"
    /\ cap' = [cap EXCEPT ![c] = [@ EXCEPT !.pc = "sleep", !.timer = IdlePoll]]
    /\ UNCHANGED <<mainPc, mainTimer, cycle, clients, de, capAge, capsDir,
                   wordlist, connectRet, recovery, cancelled,
                   apiVars>>

\* time.sleep(1) is over
handshake_wake(c) ==
    /\ cap[c].pc = "sleep"
    /\ cap[c].timer = 0
    /\ cap' = [cap EXCEPT ![c] = [@ EXCEPT !.pc = "loop"]]
    /\ UNCHANGED <<mainPc, mainTimer, cycle, clients, de, capAge, capsDir,
                   wordlist, connectRet, recovery, cancelled,
                   apiVars>>

\* readline raises (a line that does not decode): proc.terminate(); return ""
handshake_raise(c) ==
    /\ cap[c].pc = "readline"
    /\ cap[c].proc = "running"
    /\ cap' = [cap EXCEPT ![c] = [@ EXCEPT !.pc = "done", !.proc = "signalled",
                                           !.elapsed = 0, !.ret = "empty",
                                           !.cause = "exception"]]
    /\ UNCHANGED <<mainPc, mainTimer, cycle, clients, de, capAge, capsDir,
                   wordlist, connectRet, recovery, cancelled,
                   apiVars>>

\* airodump-ng ends (by itself, or after the signal it was sent)
tool_exits(c) ==
    /\ cap[c].proc \in {"running", "signalled"}
    /\ cap' = [cap EXCEPT ![c] = [@ EXCEPT !.proc = "exited"]]
    /\ UNCHANGED <<mainPc, mainTimer, cycle, clients, de, capAge, capsDir,
                   wordlist, connectRet, recovery, cancelled,
                   apiVars>>

\* airodump-ng creates <prefix>-01.cap
tool_writes(c) ==
    /\ cap[c].proc = "running"
    /\ cap[c].elapsed <= MaxWrite
    /\ c \notin capsDir
    /\ capsDir' = capsDir \cup {c}
    /\ UNCHANGED <<mainPc, mainTimer, cycle, clients, cap, de, capAge,
                   wordlist, connectRet, recovery, cancelled,
                   apiVars>>

CapAlive(c) == cap[c].pc \notin {"idle", "done", "crashed"}

\* the capture process of cycle c has been created and has not ended
CapProcRunning(c) == cap[c].proc \in {"running", "signalled"}

CapWaits(c) ==
    \/ ~CapAlive(c)
    \/ cap[c].pc = "readline" /\ cap[c].proc = "running"
    \/ cap[c].pc = "sleep" /\ cap[c].timer > 0

\* While the thread polls a closed stream (sleep 1, timeout test, readline
\* gives '', sleep 1, ...) nothing changes until the timeout test succeeds:
\* that is the next time the thread does something new.
CapDeadlines(c) ==
    IF cap[c].pc = "sleep" /\ cap[c].timer > 0
       THEN {IF TimedOut(cap[c]) THEN cap[c].timer
             ELSE Timeout + 1 - cap[c].elapsed}
       ELSE {}

\* n seconds pass
CapPass(k, n) ==
    IF k.pc \in {"loop", "readline", "sleep"}
       THEN [k EXCEPT !.elapsed = Min(k.elapsed + n, ElapsedCap), !.timer = 0]
       ELSE k

(***************************************************************************)
(* API.parse_password, as CLI._connect sees it: what the call does for     *)
(* each answer of aircrack-ng.                                             *)
(***************************************************************************)
CrackOutcomes == {"key_found", "not_in_dictionary", "no_handshake",
                  "nothing", "timeout", "missing"}

\* "returns", or the reason why it raises
parse_password(wl, dir, out) ==
    IF ~wl THEN "FileNotFoundError"            \* no wordlist file
    ELSE IF dir = {} THEN "FileNotFoundError"  \* no .cap file
    ELSE IF out = "no_handshake" THEN "RuntimeError"  \* invalid capture
    ELSE IF out = "missing" THEN "tool_missing"       \* no aircrack-ng
    ELSE "returns"

(***************************************************************************)
(* CLI._connect                                                            *)
(***************************************************************************)
\* the stations get_connected_clients can report: two associated with the
\* selected network ("T"), one with another access point
ClientPool == {[station |-> "A", bssid |-> "T"],
               [station |-> "B", bssid |-> "X"],
               [station |-> "C", bssid |-> "T"]}

\* the station rows of one CSV: each station at most once, in any order
EnumResults ==
    {cl \in SeqsUpTo(ClientPool, MaxClients) :
        \A j, k \in 1..Len(cl) : j # k => cl[j].station # cl[k].station}

\* [client["station"] for client in clients]
Stations(cl) == [k \in 1..Len(cl) |-> cl[k].station]

\* as TooFewClients, but one client is enough
TooFewClientsNone(cl) == Len(cl) < MinClients - 1

\* `len(clients) < 2`
TooFewClients(cl) == Len(cl) < MinClients

\* as GraceDelay, one second short
GraceDelayShort == Grace - 1

\* seconds slept between getting_handshake.start() and the deauth thread
GraceDelay == Grace

\* the user picks "Start connect": get_connected_clients starts airodump-ng
connect_begin ==
    /\ mainPc = "menu"
    /\ cycle < MaxCycles
    /\ cycle' = cycle + 1
    /\ mainPc' = "enum"
    /\ mainTimer' = EnumTimeout
    /\ clients' = <<>>
    /\ UNCHANGED <<cap, de, capAge, capsDir, wordlist, connectRet, recovery,
                   cancelled,
                   apiVars>>

\* get_connected_clients finds no airodump-ng and raises RuntimeError:
\* nothing on the way up catches it
connect_enum_fails ==
    /\ mainPc = "enum"
    /\ mainTimer = EnumTimeout
    /\ mainPc' = "crashed"
    /\ connectRet' = [connectRet EXCEPT ![cycle] = "tool_missing"]
    /\ UNCHANGED <<mainTimer, cycle, clients, cap, de, capAge, capsDir,
                   wordlist, recovery, cancelled,
                   apiVars>>

\* get_connected_clients returns fewer than 2 clients: exit(0)
connect_no_clients ==
    /\ mainPc = "enum"
    /\ mainTimer = 0
    /\ \E cl \in EnumResults :
          /\ TooFewClients(cl)
          /\ clients' = cl
    /\ mainPc' = "exited"
    /\ connectRet' = [connectRet EXCEPT ![cycle] = "no_clients"]
    /\ UNCHANGED <<mainTimer, cycle, cap, de, capAge, capsDir, wordlist,
                   recovery, cancelled,
                   apiVars>>

\* get_connected_clients returns 2 clients or more:
\* getting_handshake.start(), then time.sleep(5)
connect_start_capture ==
    /\ mainPc = "enum"
    /\ mainTimer = 0
    /\ \E cl \in EnumResults :
          /\ ~TooFewClients(cl)
          /\ clients' = cl
    /\ cap' = [cap EXCEPT ![cycle] = CapStart]
    /\ mainPc' = "grace"
    /\ mainTimer' = GraceDelay
    /\ UNCHANGED <<cycle, de, capAge, capsDir, wordlist, connectRet, recovery,
                   cancelled,
                   apiVars>>

\* the sleep is over: disconnecting_clients.start()
connect_start_deauth ==
    /\ mainPc = "grace"
    /\ mainTimer = 0
    /\ de' = [de EXCEPT ![cycle] = DeStart(Stations(clients))]
    /\ mainPc' = "wait"
    /\ UNCHANGED <<mainTimer, cycle, clients, cap, capAge, capsDir, wordlist,
                   connectRet, recovery, cancelled,
                   apiVars>>

\* as StillWaiting, but only while both threads are alive
StillWaitingForBoth == CapAlive(cycle) /\ DeAlive(cycle)

\* `while getting_handshake.is_alive() or disconnecting_clients.is_alive()`
StillWaiting == CapAlive(cycle) \/ DeAlive(cycle)

\* the loop condition holds: time.sleep(1)
connect_poll ==
    /\ mainPc = "wait"
    /\ StillWaiting
    /\ mainPc' = "poll"
    /\ mainTimer' = PollInterval
    /\ UNCHANGED <<cycle, clients, cap, de, capAge, capsDir, wordlist,
                   connectRet, recovery, cancelled,
                   apiVars>>

connect_poll_wake ==
    /\ mainPc = "poll"
    /\ mainTimer = 0
    /\ mainPc' = "wait"
    /\ UNCHANGED <<mainTimer, cycle, clients, cap, de, capAge, capsDir,
                   wordlist, connectRet, recovery, cancelled,
                   apiVars>>

\* the loop ends: join(timeout=1) of the dead deauth thread, then
\* self.api.parse_password(...) is called
connect_recover ==
    /\ mainPc = "wait"
    /\ ~StillWaiting
    /\ recovery' = [recovery EXCEPT ![cycle] = TRUE]
    /\ wordlist' \in BOOLEAN
    /\ mainPc' = "parse"
    /\ UNCHANGED <<mainTimer, cycle, clients, cap, de, capAge, capsDir,
                   connectRet, cancelled,
                   apiVars>>

\* parse_password returns: return True
connect_returns ==
    /\ mainPc = "parse"
    /\ \E out \in CrackOutcomes :
          parse_password(wordlist, capsDir, out) = "returns"
    /\ mainPc' = "menu"
    /\ connectRet' = [connectRet EXCEPT ![cycle] = "True"]
    /\ UNCHANGED <<mainTimer, cycle, clients, cap, de, capAge, capsDir,
                   wordlist, recovery, cancelled,
                   apiVars>>

\* parse_password raises: only KeyboardInterrupt is caught
connect_raises ==
    /\ mainPc = "parse"
    /\ \E out \in CrackOutcomes :
          /\ parse_password(wordlist, capsDir, out) # "returns"
          /\ connectRet' = [connectRet EXCEPT ![cycle] =
                               parse_password(wordlist, capsDir, out)]
    /\ mainPc' = "crashed"
    /\ UNCHANGED <<mainTimer, cycle, clients, cap, de, capAge, capsDir,
                   wordlist, recovery, cancelled,
                   apiVars>>

\* KeyboardInterrupt inside the try block: the handler starts with
\* getting_handshake.join(timeout=1)
interrupt_caught ==
    /\ mainPc \in {"wait", "poll", "parse"}
    /\ mainPc' = "join_capture"
    /\ mainTimer' = JoinTimeout
    /\ cancelled' = [cancelled EXCEPT ![cycle] =
                        IF CapAlive(cycle) /\ DeAlive(cycle) THEN "both"
                        ELSE IF StillWaiting THEN "one" ELSE "neither"]
    /\ UNCHANGED <<cycle, clients, cap, de, capAge, capsDir, wordlist,
                   connectRet, recovery,
                   apiVars>>

\* KeyboardInterrupt before the try block (in get_connected_clients or in
\* time.sleep(5)): it leaves _connect
interrupt_uncaught ==
    /\ mainPc \in {"enum", "grace"}
    /\ mainPc' = "crashed"
    /\ connectRet' = [connectRet EXCEPT ![cycle] = "interrupted"]
    /\ UNCHANGED <<mainTimer, cycle, clients, cap, de, capAge, capsDir,
                   wordlist, recovery, cancelled,
                   apiVars>>

\* getting_handshake.join(timeout=1) returns; disconnecting_clients.join(timeout=1)
connect_join_capture ==
    /\ mainPc = "join_capture"
    /\ ~CapAlive(cycle) \/ mainTimer = 0
    /\ mainPc' = "join_deauth"
    /\ mainTimer' = JoinTimeout
    /\ UNCHANGED <<cycle, clients, cap, de, capAge, capsDir, wordlist,
                   connectRet, recovery, cancelled,
                   apiVars>>

\* disconnecting_clients.join(timeout=1) returns; return False
connect_join_deauth ==
    /\ mainPc = "join_deauth"
    /\ ~DeAlive(cycle) \/ mainTimer = 0
    /\ mainPc' = "menu"
    /\ mainTimer' = 0
    /\ connectRet' = [connectRet EXCEPT ![cycle] = "False"]
    /\ UNCHANGED <<cycle, clients, cap, de, capAge, capsDir, wordlist,
                   recovery, cancelled,
                   apiVars>>

MainWaits ==
    \/ mainPc \in {"api", "menu", "exited", "crashed"}
    \/ mainPc \in {"enum", "grace", "poll"} /\ mainTimer > 0
    \/ mainPc = "join_capture" /\ mainTimer > 0 /\ CapAlive(cycle)
    \/ mainPc = "join_deauth" /\ mainTimer > 0 /\ DeAlive(cycle)

\* the wait loop's time.sleep(1) ends every second and changes nothing while
\* the threads are as they are; the other sleeps and joins end when they end
MainDeadlines ==
    IF mainPc \in {"enum", "grace", "join_capture", "join_deauth"}
          /\ mainTimer > 0
       THEN {mainTimer} ELSE {}

(***************************************************************************)
(* Time.  Advance(n): n seconds pass, during which every thread sleeps,    *)
(* waits or polls and none of them does anything new.                      *)
(***************************************************************************)
Deadlines ==
    MainDeadlines \cup UNION {CapDeadlines(c) \cup DeDeadlines(c) : c \in Cycles}

Advance(n) ==
    /\ MainWaits
    /\ \A c \in Cycles : DeWaits(c) /\ CapWaits(c)
    /\ \A t \in Deadlines : n <= t
    /\ mainTimer' = IF mainPc = "poll" \/ mainTimer < n THEN 0
                    ELSE mainTimer - n
    /\ de' = [c \in Cycles |-> DePass(de[c], n)]
    /\ cap' = [c \in Cycles |-> CapPass(cap[c], n)]
    /\ capAge' = [c \in Cycles |-> IF cap[c].pc = "idle" THEN 0
                                   ELSE Min(capAge[c] + n, Grace)]
    /\ <<mainTimer', de', cap', capAge'>> # <<mainTimer, de, cap, capAge>>
    /\ UNCHANGED <<mainPc, cycle, clients, capsDir, wordlist, connectRet,
                   recovery, cancelled,
                   apiVars>>

\* one second passes
Tick == Advance(1)

\* time passes until the next sleep, join or time limit ends
Leap ==
    /\ Deadlines # {}
    /\ \E n \in Deadlines : Advance(n)

(***************************************************************************)
(* API.deauth_clients called on its own with any client list.              *)
(***************************************************************************)
ClientLists == SeqsUpTo(Macs, MaxLen)

InitDeauth ==
    /\ mainPc = "api"
    /\ mainTimer = 0
    /\ cycle = 1
    /\ clients = <<>>
    /\ cap = [c \in Cycles |-> CapIdle]
    /\ \E cl \in ClientLists :
          de = [c \in Cycles |-> IF c = 1 THEN DeStart(cl) ELSE DeIdle]
    /\ capAge = [c \in Cycles |-> 0]
    /\ capsDir = {}
    /\ wordlist = FALSE
    /\ connectRet = [c \in Cycles |-> "none"]
    /\ recovery = [c \in Cycles |-> FALSE]
    /\ cancelled = [c \in Cycles |-> "no"]
    /\ ApiUnused

NextDeauth ==
    \/ deauth_spawn(1)
    \/ deauth_missing(1)
    \/ deauth_error(1)
    \/ deauth_exit(1)
    \/ deauth_timeout(1)
    \/ deauth_resume(1)
    \/ Tick

SpecDeauth == InitDeauth /\ [][NextDeauth]_vars

(***************************************************************************)
(* API.get_handshake called on its own.                                    *)
(***************************************************************************)
InitCapture ==
    /\ mainPc = "api"
    /\ mainTimer = 0
    /\ cycle = 1
    /\ clients = <<>>
    /\ cap = [c \in Cycles |-> IF c = 1 THEN CapStart ELSE CapIdle]
    /\ de = [c \in Cycles |-> DeIdle]
    /\ capAge = [c \in Cycles |-> 0]
    /\ capsDir \in {{}, {0}}
    /\ wordlist = FALSE
    /\ connectRet = [c \in Cycles |-> "none"]
    /\ recovery = [c \in Cycles |-> FALSE]
    /\ cancelled = [c \in Cycles |-> "no"]
    /\ ApiUnused

NextCapture ==
    \/ handshake_spawn(1)
    \/ handshake_spawn_fails(1)
    \/ handshake_check(1)
    \/ handshake_line(1)
    \/ handshake_eof(1)
    \/ handshake_wake(1)
    \/ handshake_raise(1)
    \/ tool_exits(1)
    \/ tool_writes(1)
    \/ Tick

SpecCapture == InitCapture /\ [][NextCapture]_vars

(***************************************************************************)
(* The API calls outside a connect cycle, each on its own.                 *)
(***************************************************************************)
\* the connect cycle has not begun
ConnectUnused ==
    /\ mainPc = "api"
    /\ mainTimer = 0
    /\ cycle = 1
    /\ clients = <<>>
    /\ cap = [c \in Cycles |-> CapIdle]
    /\ de = [c \in Cycles |-> DeIdle]
    /\ capAge = [c \in Cycles |-> 0]
    /\ capsDir = {}
    /\ wordlist = FALSE
    /\ connectRet = [c \in Cycles |-> "none"]
    /\ recovery = [c \in Cycles |-> FALSE]
    /\ cancelled = [c \in Cycles |-> "no"]

\* one scan of any CSV
InitParse == ConnectUnused /\ ApiUnused

NextParse ==
    \/ scan.ret = "none" /\ UNCHANGED cli
          /\ \E rdr \in CsvInputs : scan_network(rdr)
    \/ scan.ret = "none" /\ UNCHANGED cli /\ scan_fails

SpecParse == InitParse /\ [][NextParse]_vars

\* scans and lookups in any order
NextScan ==
    \/ UNCHANGED cli /\ \E rdr \in ScanInputs : scan_network(rdr)
    \/ UNCHANGED cli /\ scan_fails
    \/ UNCHANGED cli /\ \E bssid \in Queries : get_info_by_bssid(bssid)

SpecScan == InitParse /\ [][NextScan]_vars

\* the user in the menus
NextMenu ==
    \/ select_device
    \/ cli_scan
    \/ cli_scan_fails
    \/ network_actions
    \/ network_back
    \/ show_selected_info
    \/ choose_action
    \/ action_returns

SpecMenu == InitParse /\ [][NextMenu]_vars

\* one recovery, in either mode, on any output
InitCrack ==
    /\ ConnectUnused
    /\ last_scan = <<>> /\ scan = ScanNone /\ lookup = LookupNone
    /\ cli = CliStart
    /\ \E mode \in Modes, line \in Lines, note \in Notes :
          crack = [CrackNone EXCEPT !.mode = mode, !.line = line,
                                    !.note = note,
                                    !.files = <<[name |-> 1, mtime |-> 1]>>]

NextCrack ==
    \/ recover_select
    \/ recover_run
    \/ recover_timeout
    \/ recover_error

SpecCrack == InitCrack /\ [][NextCrack]_vars

\* one recovery, in either mode, with any capture files in caps/
InitSelect ==
    /\ ConnectUnused
    /\ last_scan = <<>> /\ scan = ScanNone /\ lookup = LookupNone
    /\ cli = CliStart
    /\ \E mode \in Modes, fs \in CapListings, wl \in BOOLEAN :
          crack = [CrackNone EXCEPT !.mode = mode, !.files = fs, !.wl = wl]

SpecSelect == InitSelect /\ [][NextCrack]_vars

(***************************************************************************)
(* The program: connect cycles started from the network menu.              *)
(***************************************************************************)
Init ==
    /\ mainPc = "menu"
    /\ mainTimer = 0
    /\ cycle = 0
    /\ clients = <<>>
    /\ cap = [c \in Cycles |-> CapIdle]
    /\ de = [c \in Cycles |-> DeIdle]
    /\ capAge = [c \in Cycles |-> 0]
    /\ capsDir \in {{}, {0}}
    /\ wordlist = FALSE
    /\ connectRet = [c \in Cycles |-> "none"]
    /\ recovery = [c \in Cycles |-> FALSE]
    /\ cancelled = [c \in Cycles |-> "no"]
    /\ ApiUnused

\* the first connect cycle of the run
connect_first == cycle = 0 /\ connect_begin

\* one connect cycle, with everything the tools and the user can do
Next ==
    \/ connect_first
    \/ connect_enum_fails
    \/ connect_no_clients
    \/ connect_start_capture
    \/ connect_start_deauth
    \/ connect_poll
    \/ connect_poll_wake
    \/ connect_recover
    \/ connect_returns
    \/ connect_raises
    \/ interrupt_caught
    \/ interrupt_uncaught
    \/ connect_join_capture
    \/ connect_join_deauth
    \/ \E c \in Cycles :
          \/ handshake_spawn(c)
          \/ handshake_spawn_fails(c)
          \/ handshake_check(c)
          \/ handshake_line(c)
          \/ handshake_eof(c)
          \/ handshake_wake(c)
          \/ handshake_raise(c)
          \/ tool_exits(c)
          \/ tool_writes(c)
          \/ deauth_spawn(c)
          \/ deauth_missing(c)
          \/ deauth_error(c)
          \/ deauth_exit(c)
          \/ deauth_timeout(c)
          \/ deauth_resume(c)
    \/ Leap

Spec == Init /\ [][Next]_vars

(***************************************************************************)
(* Several connect cycles in one run.  The tools start and write nothing   *)
(* that fails to decode; the user may interrupt and connect again, and     *)
(* lets the last cycle run.                                                *)
(***************************************************************************)
NextCycles ==
    \/ connect_begin
    \/ connect_no_clients
    \/ connect_start_capture
    \/ connect_start_deauth
    \/ connect_poll
    \/ connect_poll_wake
    \/ connect_recover
    \/ connect_returns
    \/ connect_raises
    \/ cycle < MaxCycles /\ interrupt_caught
    \/ connect_join_capture
    \/ connect_join_deauth
    \/ \E c \in Cycles :
          \/ handshake_spawn(c)
          \/ handshake_check(c)
          \/ handshake_line(c)
          \/ deauth_spawn(c)
          \/ deauth_exit(c)
          \/ deauth_timeout(c)
          \/ deauth_resume(c)
    \/ Leap

InitCycles == Init /\ capsDir = {0}

SpecCycles == InitCycles /\ [][NextCycles]_vars

(***************************************************************************)
(* The claims.                                                             *)
(***************************************************************************)
\* a task or a capture process of cycle c is still there
CycleBusy(c) == CapAlive(c) \/ DeAlive(c) \/ CapProcRunning(c)

\* an injector process of cycle c runs
InjectorRunning(c) == de[c].pc = "run"

\* C1: in every connect cycle the deauth thread exists, and so its injector
\* is invoked, only when the capture thread of that cycle was started at
\* least 5 seconds earlier; the deauth thread never starts before the
\* capture thread.
C1_DeauthAfterGrace ==
    \A c \in Cycles :
        de[c].pc # "idle" => cap[c].pc # "idle" /\ capAge[c] >= Grace

\* the injector has been invoked in a cycle whose capture thread was started
C1_Witness ==
    \E c \in Cycles : de[c].attempted # <<>> /\ cap[c].pc # "idle"

\* C2: when the interrupt came while both tasks were running, _connect
\* returns False and at its return both threads have ended and neither the
\* capture tool nor the injector runs.
C2_CancelStopsBoth ==
    \A c \in Cycles :
        cancelled[c] = "both" /\ connectRet[c] # "none"
            => /\ connectRet[c] = "False"
               /\ ~CapAlive(c) /\ ~DeAlive(c)
               /\ cap[c].proc # "running" /\ ~InjectorRunning(c)

\* C3: when the capture thread of a cycle has been started, no thread and no
\* capture process of an earlier cycle is left.
C3_OneCycleAtATime ==
    \A c1, c2 \in Cycles :
        c1 < c2 /\ cap[c2].pc # "idle" => ~CycleBusy(c1)

\* C4: parse_password is called in a cycle only if the capture thread of that
\* cycle returned the path of a capture file.
C4_RecoveryOnlyWithFile ==
    \A c \in Cycles : recovery[c] => cap[c].ret = "path"

\* C5: whatever the two tasks ended with, _connect returns; an exception
\* leaves it only when a tool is missing.
C5_ConnectNeverRaises ==
    \A c \in Cycles : connectRet[c] \notin {"FileNotFoundError", "RuntimeError"}

\* C6: get_handshake does not run on after the timeout, one idle poll and a
\* second have passed, whatever the capture tool writes or does not write.
C6_ReturnsAfterTimeout ==
    \A c \in Cycles : CapAlive(c) => cap[c].elapsed < ElapsedCap

\* C7: a call of deauth_clients with n >= 1 clients that found the injector
\* every time has paused after each of the first n-1 clients and after no
\* other.
C7_PausesBetweenClients ==
    \A c \in Cycles :
        de[c].pc = "done" /\ de[c].clients # <<>> /\ ~de[c].missing
            => de[c].pauses = 1..(Len(de[c].clients) - 1)

\* C8: once a call found no injector, deauth_clients has returned False, and
\* it called the injector for no later client and paused after none.
C8_MissingAborts ==
    \A c \in Cycles :
        de[c].missing
            => /\ de[c].pc = "done"
               /\ de[c].ret = "False"
               /\ Len(de[c].attempted) = de[c].i
               /\ \A p \in de[c].pauses : p < de[c].i

\* the injector was missing for a client that is neither the first nor the last
C8_Witness ==
    \E c \in Cycles :
        /\ de[c].missing
        /\ 1 < de[c].i /\ de[c].i < Len(de[c].clients)
        /\ de[c].ret = "False"

\* C9: the clients attempted are always the first ones of the list, in order;
\* deauth_clients returns True exactly when it attempted all of them and all
\* attempts succeeded; a failed or timed out attempt does not end the loop.
C9_TrueIffAllSucceeded ==
    \A c \in Cycles :
        /\ Len(de[c].attempted) <= Len(de[c].clients)
        /\ de[c].attempted = SubSeq(de[c].clients, 1, Len(de[c].attempted))
        /\ de[c].pc = "done" =>
              /\ de[c].ret = "True" <=>
                    de[c].attempted = de[c].clients /\ de[c].failures = 0
              /\ ~de[c].missing => de[c].attempted = de[c].clients

\* a call that returned False although it attempted every client: an attempt
\* failed and the later clients were attempted all the same
C9_Witness ==
    \E c \in Cycles :
        /\ de[c].pc = "done" /\ de[c].ret = "False" /\ ~de[c].missing
        /\ Len(de[c].clients) >= 2
        /\ de[c].attempted = de[c].clients
        /\ de[c].failures = 1

\* C10: with fewer than 2 clients enumerated the cycle ends with the
\* no-clients outcome (exit), and no capture thread, no deauth thread and no
\* recovery is started in it.
C10_NoClientsStartsNothing ==
    \A c \in Cycles :
        /\ connectRet[c] = "no_clients" =>
              mainPc = "exited" /\ c = cycle /\ Len(clients) < 2
        /\ c = cycle /\ Len(clients) < 2 =>
              cap[c].pc = "idle" /\ de[c].pc = "idle" /\ ~recovery[c]
        /\ c = cycle /\ mainPc = "exited" => connectRet[c] = "no_clients"

\* the enumeration returned exactly one client
C10_Witness ==
    \E c \in Cycles : connectRet[c] = "no_clients" /\ Len(clients) = 1

\* two characters that are the same letter in either case, or the same character
SameLetter(a, b) ==
    \/ a = b
    \/ \E p \in {<<"A", "a">>, <<"B", "b">>, <<"C", "c">>, <<"D", "d">>,
                 <<"I", "i">>, <<"M", "m">>, <<"S", "s">>} :
          \/ a = p[1] /\ b = p[2]
          \/ a = p[2] /\ b = p[1]

\* two strings equal ignoring letter case
SameIgnoringCase(str1, str2) ==
    /\ Len(str1) = Len(str2)
    /\ \A k \in 1..Len(str1) : SameLetter(str1[k], str2[k])

\* C11: the cache holds exactly the list the most recent successful scan
\* returned, nothing of the lists before it; a lookup finds only entries of
\* that list and fails for a BSSID that no entry of it has.
C11_CacheIsLastScan ==
    /\ last_scan = scan.returned
    /\ lookup.ret = "net" =>
          \E k \in 1..Len(scan.returned) : scan.returned[k] = lookup.net
    /\ (lookup.ret # "none" /\
        \A k \in 1..Len(scan.returned) :
            ~SameIgnoringCase(scan.returned[k].bssid, lookup.bssid))
          => lookup.ret = "ValueError"

\* after a second scan that found something, the lookup of a BSSID that only
\* the scan before it had found failed
C11_Witness ==
    /\ lookup.ret = "ValueError"
    /\ scan.returned # <<>>
    /\ \E k \in 1..Len(scan.prev) :
          SameIgnoringCase(scan.prev[k].bssid, lookup.bssid)

\* C12: get_info_by_bssid(b) fails with ValueError exactly when no cached
\* entry has b as its BSSID ignoring letter case, and otherwise returns a
\* cached entry whose BSSID is b ignoring letter case.
C12_LookupIgnoresCase ==
    lookup.ret # "none" =>
       /\ lookup.ret = "ValueError" <=>
             \A k \in 1..Len(last_scan) :
                 ~SameIgnoringCase(last_scan[k].bssid, lookup.bssid)
       /\ lookup.ret = "net" =>
             /\ \E k \in 1..Len(last_scan) : last_scan[k] = lookup.net
             /\ SameIgnoringCase(lookup.net.bssid, lookup.bssid)

\* a lookup returned an entry whose BSSID is written in the other case
C12_Witness ==
    /\ lookup.ret = "net"
    /\ lookup.net.bssid # lookup.bssid

\* the row that begins the client section
IsStationRow(row) ==
    row.ncols > 0 /\ SameIgnoringCase(Strip(row.first), StationCell)

\* a row of the access point section that becomes an entry
IsAPRow(row) ==
    row.ncols >= 14 /\ Strip(row.first) # HeaderCell

\* number of rows before the first row that begins the client section
APSectionLen(rdr) ==
    IF \E k \in 1..Len(rdr) : IsStationRow(rdr[k])
       THEN (CHOOSE k \in 1..Len(rdr) :
                /\ IsStationRow(rdr[k])
                /\ \A j \in 1..(k - 1) : ~IsStationRow(rdr[j])) - 1
       ELSE Len(rdr)

\* C13: the list scan_network returns has one entry for each row that comes
\* before the row beginning the client section, is not empty, is not the
\* header row and has at least 14 columns, in the order of the file, and no
\* other entry (first cells are compared without surrounding white space).
C13_APRowsOnly ==
    scan.ret = "list" =>
       LET aps == SelectSeq(SubSeq(scan.csv, 1, APSectionLen(scan.csv)),
                            IsAPRow)
       IN  scan.returned = [k \in 1..Len(aps) |-> [bssid |-> Strip(aps[k].first)]]

\* a CSV with an access point row, a short or header row or empty row, the
\* row beginning the client section, and a long row after it
C13_Witness ==
    /\ scan.ret = "list"
    /\ Len(scan.csv) = MaxRows
    /\ IsAPRow(scan.csv[1]) /\ ~IsStationRow(scan.csv[1])
    /\ IsStationRow(scan.csv[2])
    /\ IsAPRow(scan.csv[3]) /\ ~IsStationRow(scan.csv[3])
    /\ Len(scan.returned) = 1

\* the line has the marker, a "[" after it and a "]" after that
HasBracketedKey(line) ==
    LET mark == IndexFrom(line, {KeyMarker}, 1)
        open == IndexFrom(line, {"["}, mark + 1)
    IN  /\ mark <= Len(line)
        /\ open <= Len(line)
        /\ IndexFrom(line, {"]"}, open + 1) <= Len(line)

\* the text between the first "[" after the marker and the next "]", trimmed
BracketedKey(line) ==
    LET mark == IndexFrom(line, {KeyMarker}, 1)
        open == IndexFrom(line, {"["}, mark + 1)
    IN  Strip(SubSeq(line, open + 1, IndexFrom(line, {"]"}, open + 1) - 1))

\* C14: when the output of aircrack-ng has the marker "KEY FOUND!" followed
\* by a bracketed text, recovery in either mode returns that text, the part
\* between the first "[" after the marker and the next "]", without the
\* white space around it.
C14_KeyIsTrimmedBracketText ==
    crack.how = "ran" /\ HasBracketedKey(crack.line)
        => crack.ret = "key" /\ crack.key = BracketedKey(crack.line)

\* the output says that the capture file holds no handshake
SaysNoHandshake(note) == note \in {"No networks found", "ap_cur != NULL"}

\* C15: in either mode, without the marker in the output, an output that
\* says the capture holds no handshake gives an outcome other than the
\* empty result, any other output gives the empty result, and running out
\* of time gives the empty result.
C15_InvalidCaptureIsDistinct ==
    /\ crack.how = "timeout" => crack.ret = "empty"
    /\ crack.how = "ran" /\ ~Contains(crack.line, KeyMarker) =>
          IF SaysNoHandshake(crack.note)
             THEN crack.ret = "RuntimeError"
             ELSE crack.ret = "empty"

\* C16: an interrupt that comes after the capture thread was started does
\* not leave _connect as an exception, and when _connect has ended after an
\* interrupt the capture process of the cycle does not run any more.
C16_InterruptAlwaysHandled ==
    \A c \in Cycles :
        /\ connectRet[c] = "interrupted" => cap[c].pc = "idle"
        /\ connectRet[c] \in {"interrupted", "False"} =>
              cap[c].proc # "running"

TargetBssid == "T"

\* C18: every station given to the deauth thread of a cycle is a client
\* whose bssid, as enumerated, is the BSSID of the chosen access point.
C18_OnlyClientsOfTarget ==
    \A c \in Cycles :
        \A k \in 1..Len(de[c].clients) :
            \E client \in ClientPool :
                /\ client.station = de[c].clients[k]
                /\ client.bssid = TargetBssid

\* C19: when get_handshake has returned because of the marker or of the
\* timeout, the capture process has been terminated and waited for, and the
\* result is the path exactly if the capture file exists, else empty.
C19_ReturnReapsAndChecksFile ==
    \A c \in Cycles :
        cap[c].pc = "done" /\ cap[c].cause \in {"marker", "timeout"}
            => /\ cap[c].proc = "reaped"
               /\ cap[c].ret = IF CapFileExists(c) THEN "path" ELSE "empty"

\* get_handshake returned the path of a capture file after the timeout
C19_Witness ==
    \E c \in Cycles :
        /\ cap[c].pc = "done" /\ cap[c].cause = "timeout"
        /\ cap[c].ret = "path" /\ cap[c].proc = "reaped"

\* C20: when the capture tool could not be started, get_handshake has
\* returned the empty result; the thread ends in no other way.
C20_LaunchFailureReturnsEmpty ==
    \A c \in Cycles :
        cap[c].pc \notin {"idle", "start"} /\ cap[c].proc = "none"
            => cap[c].pc = "done" /\ cap[c].ret = "empty"

SelectedIsCached ==
    \E k \in 1..Len(last_scan) :
        SameIgnoringCase(last_scan[k].bssid, cli.selected.bssid)

\* C22: the menu of actions is shown, and _connect or _brute_force runs, only
\* with an interface chosen and a selected network whose BSSID is in the
\* cache of the most recent scan; when the lookup of the selected network
\* failed, the user is back in the network menu.
C22_ActionsOnlyForCachedNetwork ==
    /\ cli.at \in {"info", "connect", "brute_force"} =>
          cli.device /\ cli.selected # NoNet /\ SelectedIsCached
    /\ lookup.ret = "ValueError" => cli.at \in {"network", "main"}
    /\ cli.selected # NoNet => cli.device

\* after a later scan without the selected network, Show info failed
C22_Witness ==
    /\ lookup.ret = "ValueError" /\ cli.at = "network"
    /\ ~SelectedIsCached
    /\ \E k \in 1..Len(scan.prev) : scan.prev[k] = cli.selected

====
